---- MODULE Spec2Model ----
(***************************************************************************)
(* Model of package convert (sample-rate conversion with a block cache):   *)
(* Resampling.Length / src / at / Read / Seek, over an upstream            *)
(* ReadSeekCloser holding `size` bytes of stereo 16-bit PCM.               *)
(*                                                                         *)
(* Representation choices.                                                 *)
(*  - float64 samples are kept as exact rationals with the fixed           *)
(*    denominator 32767 (1<<15 - 1): the model stores the numerator.       *)
(*  - A cached block (srcBufL[b], srcBufR[b], a []float64 of length 4096)  *)
(*    is stored as the descriptor [off, c] of the load that filled it:     *)
(*    the source byte offset the bytes were read from and the number of    *)
(*    bytes read.  The slice's elements are computed from the descriptor   *)
(*    and the immutable source bytes by sl / sr exactly as lines 113-118   *)
(*    compute them.                                                        *)
(*  - The rates are drawn from pairs with from = k * to.  tInSrc is then   *)
(*    an integer and the kernel of at() is exact: see Kernel.              *)
(*  - Intermediate results are passed to helper operators as parameters    *)
(*    (srcLoaded, atStep, readStep, ...), one helper per stage of the      *)
(*    function it belongs to.                                              *)
(***************************************************************************)
EXTENDS Integers, Sequences, FiniteSets, TLC

(* ---- program constants ------------------------------------------------ *)
resamplingBufferSize == 4096
windowSize == 8
FrameBytes == 4
lruCapacity == 4
SampleMax == 32767

(* ---- bounds of the model ---------------------------------------------- *)
\* number of different source contents
NumSeeds == 1
\* number of I/O errors the source reports in one run
MaxFaults == 1
\* the small sources hold up to MaxFrames frames
MaxFrames == 3
\* Seek is called with the even offsets in -2*MaxOffset .. 2*MaxOffset
MaxOffset == 7
\* Read is called with buffers of up to MaxBuf bytes
MaxBuf == 8
\* number of blocks of the sources whose loads may fail
FaultBlocks == 3
\* the output frame whose first output is remembered
ProbedFrame == 2
\* Length is computed for sources of up to MaxLenFrames frames
MaxLenFrames == 8
\* and for rates of up to MaxRate
MaxRate == 4
\* the sources of the Stereo16 hold up to MaxRaw bytes
MaxRaw == 5
\* at most MaxDepth method calls are under way at a time
MaxDepth == 7
\* the window of at() is computed for sources of up to MaxWindowFrames frames
MaxWindowFrames == 24
\* the data chunk of a WAV file holds up to MaxData bytes
MaxData == 4
\* and up to MaxTail bytes follow it in the file
MaxTail == 2

BlockBytes == resamplingBufferSize * FrameBytes

VARIABLES
    size,           \* Resampling.size: source length in bytes
    from,           \* Resampling.from: source rate
    to,             \* Resampling.to: target rate
    seed,           \* selects the content of the source (immutable)
    pos,            \* Resampling.pos
    srcBlock,       \* Resampling.srcBlock
    srcBufL,        \* Resampling.srcBufL: block index -> descriptor
    srcBufR,        \* Resampling.srcBufR: block index -> descriptor
    lruSrcBlocks,   \* Resampling.lruSrcBlocks
    sourcePos,      \* read position of Resampling.source
    ret,            \* what the last call did and returned
    recency,        \* history: every block ever accessed, oldest access first
    faults,         \* history: number of I/O errors the source has reported
    first,          \* history: the first output of the probed frame
    pc,             \* split read: the step the caller is at
    split,          \* split read: the split point
    acc,            \* split read: the bytes delivered so far
    mono,           \* Stereo16.mono
    eight,          \* Stereo16.eight
    outPos,         \* history: position in the output of the Stereo16 or wav stream
    format,         \* the decoder that built the stream: "wav" or "mp3"
    stack,          \* the method calls under way, the outermost first
    closed,         \* history: number of Close calls on the byte source
    headerSize,     \* wav stream.headerSize
    dataSize,       \* wav stream.dataSize
    remaining       \* wav stream.remaining

vars == <<size, from, to, seed, pos, srcBlock, srcBufL, srcBufR, lruSrcBlocks,
          sourcePos, ret, recency, faults, first, pc, split, acc,
          mono, eight, outPos, format, stack, closed,
          headerSize, dataSize, remaining>>

(* ---- the source's bytes ----------------------------------------------- *)
\* The sample values of the sources.  v / 32767 is 0, 1, -1 or below -1 for
\* them, so the float64 arithmetic of lines 116-117, 176-187 and 204-205 is
\* exact on them.
Palette == <<0, 32767, -32767, -32768>>

\* The 16-bit samples of source frame j; the left channel changes from block
\* to block, the right channel from frame to frame.
SourceSampleL(sd, j) == Palette[(((j \div resamplingBufferSize) + sd) % 4) + 1]
SourceSampleR(sd, j) == Palette[((j + sd) % 4) + 1]

\* Two's complement, little endian.
U16(v) == (v + 65536) % 65536
SourceByte(sd, o) ==
    LET j == o \div FrameBytes
        k == o % FrameBytes
        v == IF k < 2 THEN U16(SourceSampleL(sd, j)) ELSE U16(SourceSampleR(sd, j))
    IN IF k % 2 = 0 THEN v % 256 ELSE v \div 256

(* ---- helpers ---------------------------------------------------------- *)
Min(a, b) == IF a < b THEN a ELSE b
Remove(s, idx) == SubSeq(s, 1, idx - 1) \o SubSeq(s, idx + 1, Len(s))
Range(s) == {s[k] : k \in 1..Len(s)}
\* Variant of MapDelete that deletes nothing.
MapKeep(m, p) == m
\* delete(m, p)
MapDelete(m, p) == [k \in (DOMAIN m) \ {p} |-> m[k]]
MapPut(m, k, v) == [x \in (DOMAIN m) \cup {k} |-> IF x = k THEN v ELSE m[x]]
EmptyMap == [k \in {} |-> 0]

\* float64(int16(lo)|(int16(hi)<<8)) / (1<<15 - 1), as the numerator over 32767
DecodeSample(lo, hi) ==
    LET u == lo + 256 * hi IN IF u >= 32768 THEN u - 65536 ELSE u

\* sl[ii], sr[ii] of the block filled by the load described by d
sl(sd, d, ii) ==
    IF ii < d.c \div FrameBytes
    THEN DecodeSample(SourceByte(sd, d.off + 4 * ii), SourceByte(sd, d.off + 4 * ii + 1))
    ELSE 0
sr(sd, d, ii) ==
    IF ii < d.c \div FrameBytes
    THEN DecodeSample(SourceByte(sd, d.off + 4 * ii + 2), SourceByte(sd, d.off + 4 * ii + 3))
    ELSE 0

\* Variant of Length that does not round down to whole frames.
LengthBytes(sz, f, t) == (sz * t) \div f

\* int64(float64(size) * float64(to) / float64(from)) / 4 * 4, lines 80-81.
\* The float64 product and quotient are exact below 2^53, and the conversion
\* to int64 truncates the non-negative quotient.
Length(sz, f, t) == (((sz * t) \div f) \div 4) * 4

(* ---- Resampling.src ---------------------------------------------------- *)
\* The resampler's cache and its source, as one value.  loads counts the
\* block loads of the running handler; recency is history.
Cache == [srcBlock |-> srcBlock, srcBufL |-> srcBufL, srcBufR |-> srcBufR,
          lruSrcBlocks |-> lruSrcBlocks, sourcePos |-> sourcePos, loads |-> 0,
          recency |-> recency]

\* What the source does during one handler: "ok", or the load number io.at
\* fails, in Seek (io.kind = "seek", the position stays) or in Read after io.k
\* more bytes were consumed (io.kind = "read").
NoFault == [at |-> 0, kind |-> "ok", k |-> 0]
\* bytes a failing source Read consumed before it failed
PartialReads == {0, 2 * FrameBytes}
Faults(maxLoads) ==
    [at : 1..maxLoads, kind : {"seek"}, k : {0}] \cup
    [at : 1..maxLoads, kind : {"read"}, k : PartialReads]

\* The position of p in the LRU list (1-based), 0 when absent: lines 132-138.
lruIndex(lru, p) ==
    IF \E k \in 1..Len(lru) : lru[k] = p
    THEN CHOOSE k \in 1..Len(lru) : lru[k] = p /\ \A m \in 1..(k - 1) : lru[m] # p
    ELSE 0

\* Variant of lruInsert that trims only a list longer than the capacity.
lruInsertLate(c, nextPos) ==
    IF Len(c.lruSrcBlocks) > lruCapacity
    THEN [c EXCEPT !.srcBufL = MapDelete(@, c.lruSrcBlocks[1]),
                   !.srcBufR = MapDelete(@, c.lruSrcBlocks[1]),
                   !.lruSrcBlocks = Append(Tail(@), nextPos)]
    ELSE [c EXCEPT !.lruSrcBlocks = Append(@, nextPos)]

\* Lines 123-129: trim the front when the list is full, then append.
lruInsert(c, nextPos) ==
    IF Len(c.lruSrcBlocks) >= lruCapacity
    THEN [c EXCEPT !.srcBufL = MapDelete(@, c.lruSrcBlocks[1]),
                   !.srcBufR = MapDelete(@, c.lruSrcBlocks[1]),
                   !.lruSrcBlocks = Append(Tail(@), nextPos)]
    ELSE [c EXCEPT !.lruSrcBlocks = Append(@, nextPos)]

\* Variant of lruMove that leaves the list as it is.
lruStay(c, nextPos, idx) == c

\* Lines 139-143: move the entry at idx to the end; idx = 0 is the panic.
lruMove(c, nextPos, idx) ==
    IF idx = 0
    THEN [c EXCEPT !.lruSrcBlocks = <<"panic">>]
    ELSE [c EXCEPT !.lruSrcBlocks = Append(Remove(@, idx), nextPos)]

\* Line 131: the cache-hit branch records the block as the current one.
hitBlock(c, nextPos) == [c EXCEPT !.srcBlock = nextPos]

\* Lines 131-143: the cache-hit branch.
lruTouch(c, nextPos) ==
    lruMove(hitBlock(c, nextPos), nextPos, lruIndex(c.lruSrcBlocks, nextPos))

\* Line 95: whether the load seeks the source first.
needSeek(c, nextPos) == c.srcBlock + 1 # nextPos

\* Lines 95-99: the source position the block is read from.
loadStart(c, nextPos) ==
    IF needSeek(c, nextPos) THEN nextPos * resamplingBufferSize * 4 ELSE c.sourcePos

\* Lines 119-121, and the source left behind the bytes read.
store(c, nextPos, d) ==
    [c EXCEPT !.loads = @ + 1,
              !.sourcePos = d.off + d.c,
              !.srcBlock = nextPos,
              !.srcBufL = MapPut(@, nextPos, d),
              !.srcBufR = MapPut(@, nextPos, d)]

\* Variant of loadFrom that stores the block before it reports a failed read.
loadFromStoring(sz, c, nextPos, io, start) ==
    IF io.at = c.loads + 1 /\ io.kind = "seek" /\ needSeek(c, nextPos)
    THEN [c |-> [c EXCEPT !.loads = @ + 1], err |-> "io"]
    ELSE IF io.at = c.loads + 1 /\ io.kind = "read"
    THEN [c |-> lruInsert(store(c, nextPos,
                                [off |-> start, c |-> Min(io.k, sz - start)]),
                          nextPos),
          err |-> "io"]
    ELSE [c |-> lruInsert(store(c, nextPos,
                                [off |-> start, c |-> Min(BlockBytes, sz - start)]),
                          nextPos),
          err |-> "nil"]

\* Lines 96-129 once the start position is known.  The read loop of lines
\* 102-111 ends with a full buffer or at the source's end, whatever the sizes
\* of the single reads, so a successful load consumes
\* min(BlockBytes, size - start) bytes.
loadFrom(sz, c, nextPos, io, start) ==
    IF io.at = c.loads + 1 /\ io.kind = "seek" /\ needSeek(c, nextPos)
    THEN [c |-> [c EXCEPT !.loads = @ + 1], err |-> "io"]
    ELSE IF io.at = c.loads + 1 /\ io.kind = "read"
    THEN [c |-> [c EXCEPT !.loads = @ + 1,
                          !.sourcePos = start + Min(io.k, sz - start)],
          err |-> "io"]
    ELSE [c |-> lruInsert(store(c, nextPos,
                                [off |-> start, c |-> Min(BlockBytes, sz - start)]),
                          nextPos),
          err |-> "nil"]

\* Lines 94-129: load block nextPos.
loadBlock(sz, c, nextPos, io) == loadFrom(sz, c, nextPos, io, loadStart(c, nextPos))

\* History: block b was accessed now.
Touch(rec, b) ==
    IF lruIndex(rec, b) = 0 THEN Append(rec, b)
    ELSE Append(Remove(rec, lruIndex(rec, b)), b)

\* Lines 145-146: the samples of frame i, read from the current block.
srcCached(sd, c, i, how) ==
    [c |-> [c EXCEPT !.recency = Touch(@, i \div resamplingBufferSize)],
     l |-> sl(sd, c.srcBufL[c.srcBlock], i % resamplingBufferSize),
     r |-> sr(sd, c.srcBufR[c.srcBlock], i % resamplingBufferSize),
     err |-> "nil", how |-> how]

\* Lines 96-98 and 105-110: a failed load returns its error.
srcLoaded(sd, ld, i) ==
    IF ld.err # "nil"
    THEN [c |-> ld.c, l |-> 0, r |-> 0, err |-> ld.err, how |-> "fail"]
    ELSE srcCached(sd, ld.c, i, "load")

\* Resampling.src(i): the new cache, the two samples and the error.
src(sz, sd, c, i, io) ==
    IF i < 0 \/ sz \div 4 <= i
    THEN [c |-> c, l |-> 0, r |-> 0, err |-> "nil", how |-> "none"]
    ELSE IF (i \div resamplingBufferSize) \notin DOMAIN c.srcBufL
    THEN srcLoaded(sd, loadBlock(sz, c, i \div resamplingBufferSize, io), i)
    ELSE srcCached(sd, lruTouch(c, i \div resamplingBufferSize), i, "hit")

(* ---- Resampling.at ----------------------------------------------------- *)
\* sinc01(d/2) * (0.5 + 0.5*fastCos01(d/(windowSize*2+1))) for an integer d.
\* d = 0: sinc01 returns 1 (line 48) and fastCos01(0) = cosTable[0] = 1, so
\* the weight is 1.  d # 0: fastSin01(d/2) = fastCos01(d/2 - 0.25) folds its
\* table index to len(cosTable) and returns 0 (lines 37-39), so the weight is 0.
Kernel(d) == IF d = 0 THEN 1 ELSE 0

\* float64(t) * float64(from) / float64(to); the rates make it an integer.
tInSrcOf(f, t, tt) == (tt * f) \div t

RECURSIVE atLoop(_, _, _, _, _, _, _, _, _)
RECURSIVE atStep(_, _, _, _, _, _, _, _, _)
\* Lines 166-174: the body of the loop, s the result of src(n).
atStep(sz, sd, s, n, endN, tInSrc, lv, rv, io) ==
    IF s.err # "nil"
    THEN [c |-> s.c, l |-> 0, r |-> 0, err |-> s.err]
    ELSE atLoop(sz, sd, s.c, n + 1, endN, tInSrc,
                lv + s.l * Kernel(tInSrc - n), rv + s.r * Kernel(tInSrc - n), io)

\* Lines 165-175.
atLoop(sz, sd, c, n, endN, tInSrc, lv, rv, io) ==
    IF n > endN
    THEN [c |-> c, l |-> lv, r |-> rv, err |-> "nil"]
    ELSE atStep(sz, sd, src(sz, sd, c, n, io), n, endN, tInSrc, lv, rv, io)

\* Lines 176-187, on numerators over 32767.
ClampUnit(v) == IF v < -SampleMax THEN -SampleMax ELSE IF v > SampleMax THEN SampleMax ELSE v
atClamp(res) ==
    IF res.err # "nil" THEN res
    ELSE [res EXCEPT !.l = ClampUnit(@), !.r = ClampUnit(@)]

\* Lines 152-158 and 159-162: the window of source frames summed.
startNOf(sz, tInSrc) ==
    IF tInSrc - windowSize < 0 THEN (IF sz \div 4 <= 0 THEN sz \div 4 - 1 ELSE 0)
    ELSE IF sz \div 4 <= tInSrc - windowSize THEN sz \div 4 - 1
    ELSE tInSrc - windowSize
endNOf(sz, tInSrc) ==
    IF sz \div 4 <= tInSrc + windowSize THEN sz \div 4 - 1 ELSE tInSrc + windowSize

atWindow(sz, sd, c, tInSrc, io) ==
    atClamp(atLoop(sz, sd, c, startNOf(sz, tInSrc), endNOf(sz, tInSrc), tInSrc, 0, 0, io))

\* Resampling.at(tt), lines 149-189.
at(sz, sd, f, t, c, tt, io) == atWindow(sz, sd, c, tInSrcOf(f, t, tt), io)

(* ---- Resampling.Read --------------------------------------------------- *)
\* int16(l * (1<<15 - 1)) written little endian, lines 204-209.
FrameOut(l, r) ==
    <<U16(l) % 256, U16(l) \div 256, U16(r) % 256, U16(r) \div 256>>

RECURSIVE readLoop(_, _, _, _, _, _, _, _, _, _)
RECURSIVE readStep(_, _, _, _, _, _, _, _, _, _)
\* Lines 201-209: the body of the loop, a the result of at(pos/4 + i).
readStep(sz, sd, f, t, a, p, n, i, b, io) ==
    IF a.err # "nil"
    THEN [c |-> a.c, b |-> b, err |-> a.err]
    ELSE readLoop(sz, sd, f, t, a.c, p, n, i + 1, b \o FrameOut(a.l, a.r), io)

\* Lines 199-210: frames i .. n/4 - 1 of the call, b the bytes written so far.
readLoop(sz, sd, f, t, c, p, n, i, b, io) ==
    IF i >= n \div 4
    THEN [c |-> c, b |-> b, err |-> "nil"]
    ELSE readStep(sz, sd, f, t, at(sz, sd, f, t, c, p \div 4 + i, io), p, n, i, b, io)

\* Variant of atEnd that tests for a cursor past the end.
atEndPast(p, L) == p > L

\* Line 192: the end-of-stream test of Read.
atEnd(p, L) == p = L

\* Lines 195-198: the number of bytes a Read of a buffer of len bytes serves.
readCount(p, L, len) ==
    IF L - p <= (len \div 4) * 4 THEN L - p ELSE (len \div 4) * 4

\* Line 211: the cursor after a Read that served n bytes.
advance(p, n) == p + n

\* Lines 201-203 and 211-212: what Read returns after its loop.
readDone(lp, p, n) ==
    IF lp.err # "nil"
    THEN [c |-> lp.c, pos |-> p, n |-> 0, err |-> lp.err, b |-> lp.b]
    ELSE [c |-> lp.c, pos |-> advance(p, n), n |-> n, err |-> "nil", b |-> lp.b]

readFrames(sz, sd, f, t, c, p, n, io) ==
    readDone(readLoop(sz, sd, f, t, c, p, n, 0, <<>>, io), p, n)

\* Resampling.Read(b) with len(b) = len, lines 191-213: the new cache and
\* cursor, the count and error returned, and the bytes written into b.
Read(sz, sd, f, t, c, p, len, io) ==
    IF atEnd(p, Length(sz, f, t))
    THEN [c |-> c, pos |-> p, n |-> 0, err |-> "EOF", b |-> <<>>]
    ELSE readFrames(sz, sd, f, t, c, p, readCount(p, Length(sz, f, t), len), io)

(* ---- Resampling.Seek --------------------------------------------------- *)
\* Variant of seekTarget whose SeekStart is relative to the cursor.
seekTargetRelative(p, L, offset, whence) ==
    CASE whence = "SeekStart" -> p + offset
      [] whence = "SeekCurrent" -> p + offset
      [] whence = "SeekEnd" -> p + L + offset

\* Lines 216-223.
seekTarget(p, L, offset, whence) ==
    CASE whence = "SeekStart" -> offset
      [] whence = "SeekCurrent" -> p + offset
      [] whence = "SeekEnd" -> p + L + offset

\* Variant of seekClamp without the upper bound.
seekClampLow(p, L) == IF p < 0 THEN 0 ELSE p

\* Lines 224-229.
seekClamp(p, L) ==
    IF p < 0 THEN (IF L <= 0 THEN L ELSE 0) ELSE IF L <= p THEN L ELSE p

\* Resampling.Seek(offset, whence), lines 215-231: the new cursor, which is
\* also the position returned; the error returned is always nil.
Seek(p, L, offset, whence) == seekClamp(seekTarget(p, L, offset, whence), L)

(* ---- initial states ---------------------------------------------------- *)
NoRet == [op |-> "new", a |-> 0, w |-> "", p0 |-> 0, n |-> 0, err |-> "nil",
          out |-> <<>>, how |-> "none"]

\* NewResampling, lines 66-77, over a source positioned at its start.
NewResampling(sz, f, t, sd) ==
    /\ size = sz /\ from = f /\ to = t /\ seed = sd
    /\ pos = 0
    /\ srcBlock = -1
    /\ srcBufL = EmptyMap
    /\ srcBufR = EmptyMap
    /\ lruSrcBlocks = <<>>
    /\ sourcePos = 0
    /\ ret = NoRet
    /\ recency = <<>>
    /\ faults = 0
    /\ first = <<>>

\* No split read is under way.
NoSplit == pc = "free" /\ split = 0 /\ acc = <<>>

Seeds == 0..(NumSeeds - 1)

SetCache(c) ==
    /\ srcBlock' = c.srcBlock
    /\ srcBufL' = c.srcBufL
    /\ srcBufR' = c.srcBufR
    /\ lruSrcBlocks' = c.lruSrcBlocks
    /\ sourcePos' = c.sourcePos
    /\ recency' = c.recency

Config == <<size, from, to, seed>>
\* The state of the stages around the resampler.
Calls == <<format, stack, closed>>
\* The fields of wav's stream.
WavStream == <<headerSize, dataSize, remaining>>
Pipeline == <<mono, eight, outPos, Calls, WavStream>>
\* No wav stream is in use.
NoWavStream == headerSize = 0 /\ dataSize = 0 /\ remaining = 0
\* No decoder's stream is in use.
NoCalls == format = "none" /\ stack = <<>> /\ closed = 0
\* No stage but the resampler is in use.
NoPipeline == mono = FALSE /\ eight = FALSE /\ outPos = 0 /\ NoCalls /\ NoWavStream
SplitVars == <<pc, split, acc>>

\* The state after a call of src(i) that returned res.
ApplySrc(res, i) ==
    /\ SetCache(res.c)
    /\ ret' = [op |-> "src", a |-> i, w |-> "", p0 |-> pos, n |-> 0, err |-> res.err,
               out |-> <<res.l, res.r>>, how |-> res.how]
    /\ faults' = IF res.err = "io" THEN faults + 1 ELSE faults
    /\ UNCHANGED <<Config, Pipeline, pos>>

CallSrc(i, io) == ApplySrc(src(size, seed, Cache, i, io), i)

\* The state after a call of Read, from cursor p0, that returned res.
ApplyRead(res, len, p0) ==
    /\ SetCache(res.c)
    /\ pos' = res.pos
    /\ ret' = [op |-> "Read", a |-> len, w |-> "", p0 |-> p0, n |-> res.n,
               err |-> res.err, out |-> res.b, how |-> "none"]
    /\ faults' = IF res.err = "io" THEN faults + 1 ELSE faults
    /\ UNCHANGED <<Config, Pipeline>>

CallRead(len, io) ==
    ApplyRead(Read(size, seed, from, to, Cache, pos, len, io), len, pos)

\* A call of Seek.
CallSeek(offset, whence) ==
    /\ pos' = Seek(pos, Length(size, from, to), offset, whence)
    /\ ret' = [op |-> "Seek", a |-> offset, w |-> whence, p0 |-> pos, n |-> pos',
               err |-> "nil", out |-> <<>>, how |-> "none"]
    /\ UNCHANGED <<Config, Pipeline, srcBlock, srcBufL, srcBufR, lruSrcBlocks,
                   sourcePos, recency, faults>>

(* ---- the stream adapter over a small source ---------------------------- *)
Rates == {<<2, 1>>, <<1, 1>>}
SmallSizes == {FrameBytes * k : k \in 0..MaxFrames}
Whences == {"SeekStart", "SeekCurrent", "SeekEnd"}
SeekOffsets == {2 * k : k \in (-MaxOffset)..MaxOffset}

Init ==
    /\ \E sz \in SmallSizes, rate \in Rates, sd \in Seeds :
          NewResampling(sz, rate[1], rate[2], sd)
    /\ NoSplit /\ NoPipeline

DoRead ==
    /\ \E len \in 0..MaxBuf : CallRead(len, NoFault)
    /\ UNCHANGED <<first, SplitVars>>

DoReadFail ==
    /\ faults < MaxFaults
    /\ \E len \in 0..MaxBuf, io \in Faults(1) :
          /\ CallRead(len, io)
          /\ ret'.err = "io"
    /\ UNCHANGED <<first, SplitVars>>

DoSeek ==
    /\ \E offset \in SeekOffsets, whence \in Whences : CallSeek(offset, whence)
    /\ UNCHANGED <<first, SplitVars>>

Next == DoRead \/ DoReadFail \/ DoSeek
Spec == Init /\ [][Next]_vars

(* ---- the block cache driven by src calls ------------------------------- *)
\* One more block than the cache holds, so that loads evict.
CacheBlocks == lruCapacity + 1

\* A frame of block b; its place in the block changes with b.
BlockFrame(b) == b * resamplingBufferSize + b

InitCache ==
    NewResampling(CacheBlocks * BlockBytes, 2, 1, 0) /\ NoSplit /\ NoPipeline

SrcBlockFrame ==
    /\ \E b \in 0..(CacheBlocks - 1) : CallSrc(BlockFrame(b), NoFault)
    /\ UNCHANGED <<first, SplitVars>>

NextCache == SrcBlockFrame
SpecCache == InitCache /\ [][NextCache]_vars

(* ---- block loads over a source that may fail --------------------------- *)
\* Sources of FaultBlocks blocks, the last one full or holding three frames.
FaultSizes == {FaultBlocks * BlockBytes, (FaultBlocks - 1) * BlockBytes + 3 * FrameBytes}

\* The frames src is called with: below the source, the second and the last
\* frame of every block, and the frame past the end.
FaultFrames(sz) ==
    {-1, sz \div 4} \cup
    { i \in UNION {{b * resamplingBufferSize + 1,
                    (b + 1) * resamplingBufferSize - 1} : b \in 0..(FaultBlocks - 1)} :
        i < sz \div 4 }

InitFault ==
    /\ \E sz \in FaultSizes : NewResampling(sz, 2, 1, 0)
    /\ NoSplit /\ NoPipeline

SrcOk ==
    /\ \E i \in FaultFrames(size) : CallSrc(i, NoFault)
    /\ UNCHANGED <<first, SplitVars>>

SrcFail ==
    /\ faults < MaxFaults
    /\ \E i \in FaultFrames(size), io \in Faults(1) :
          /\ CallSrc(i, io)
          /\ ret'.err = "io"
    /\ UNCHANGED <<first, SplitVars>>

NextFault == SrcOk \/ SrcFail
SpecFault == InitFault /\ [][NextFault]_vars

(* ---- seek-then-read of single frames over a source of many blocks ------ *)
\* With the rates resamplingBufferSize : 1 output frame t is source frame
\* t * resamplingBufferSize, the first frame of block t, and its window
\* reaches back into block t - 1.
InitProbe ==
    /\ NewResampling(CacheBlocks * BlockBytes, resamplingBufferSize, 1, 0)
    /\ NoSplit /\ NoPipeline

\* A probe is one Seek followed by one Read, so a Seek never follows a Seek.
ProbeSeek ==
    /\ ret.op # "Seek"
    /\ \E t \in 0..(Length(size, from, to) \div FrameBytes - 1) :
          CallSeek(FrameBytes * t, "SeekStart")
    /\ UNCHANGED <<first, SplitVars>>

\* Read of one frame; the first output of the probed frame is remembered.
ProbeRead ==
    /\ ret.op = "Seek"
    /\ CallRead(FrameBytes, NoFault)
    /\ first' = IF pos = FrameBytes * ProbedFrame /\ first = <<>> THEN ret'.out ELSE first
    /\ UNCHANGED SplitVars

NextProbe == ProbeSeek \/ ProbeRead
SpecProbe == InitProbe /\ [][NextProbe]_vars

(* ---- the whole output read in two parts -------------------------------- *)
SplitPoints(L) == {FrameBytes * k : k \in 0..(L \div FrameBytes)}

InitSplit ==
    /\ \E sz \in SmallSizes, rate \in Rates, sd \in Seeds :
          NewResampling(sz, rate[1], rate[2], sd)
    /\ split \in SplitPoints(Length(size, from, to))
    /\ pc = "first"
    /\ acc = <<>>
    /\ NoPipeline

\* Read the first part, in buffers that end at the split point at the latest.
SplitReadFirst ==
    /\ pc = "first" /\ pos < split
    /\ \E len \in 1..MaxBuf :
          /\ (len \div 4) * 4 <= split - pos
          /\ CallRead(len, NoFault)
    /\ acc' = acc \o ret'.out
    /\ UNCHANGED <<pc, split, first>>

\* Seek back to the split point.
SplitSeek ==
    /\ pc = "first" /\ pos = split
    /\ CallSeek(split, "SeekStart")
    /\ pc' = "rest"
    /\ UNCHANGED <<split, acc, first>>

\* Read the rest, up to the end of the stream.
SplitReadRest ==
    /\ pc = "rest"
    /\ \E len \in 1..MaxBuf : CallRead(len, NoFault)
    /\ acc' = acc \o ret'.out
    /\ pc' = IF ret'.err = "EOF" THEN "done" ELSE "rest"
    /\ UNCHANGED <<split, first>>

NextSplit == SplitReadFirst \/ SplitSeek \/ SplitReadRest
SpecSplit == InitSplit /\ [][NextSplit]_vars

\* The resampler as constructed, and the output of one Read of the whole
\* stream from cursor 0.
Fresh == [srcBlock |-> -1, srcBufL |-> EmptyMap, srcBufR |-> EmptyMap,
          lruSrcBlocks |-> <<>>, sourcePos |-> 0, loads |-> 0, recency |-> <<>>]
WholeRead ==
    Read(size, seed, from, to, Fresh, 0, Length(size, from, to), NoFault).b

(* ---- Length over sources and rates ------------------------------------- *)
\* <<frames, from, to>>: every small triple, and 441 frames from rate 441 to
\* rate 480 (44100 frames from 44100 Hz to 48000 Hz, divided by 100).
LengthInputs ==
    ((0..MaxLenFrames) \X (1..MaxRate) \X (1..MaxRate)) \cup {<<441, 441, 480>>}

InitLength ==
    /\ \E in \in LengthInputs : NewResampling(FrameBytes * in[1], in[2], in[3], 0)
    /\ NoSplit /\ NoPipeline

\* A call of Length.
CallLength ==
    /\ ret' = [op |-> "Length", a |-> 0, w |-> "", p0 |-> pos,
               n |-> Length(size, from, to), err |-> "nil", out |-> <<>>,
               how |-> "none"]
    /\ UNCHANGED <<Config, Pipeline, pos, srcBlock, srcBufL, srcBufR, lruSrcBlocks,
                   sourcePos, recency, faults, first, SplitVars>>

NextLength == CallLength
SpecLength == InitLength /\ [][NextLength]_vars

(* ---- the window of at() at fractional source positions ---------------- *)
\* int64(x) for the float64 x = p / q with q > 0: the fraction is dropped,
\* rounding toward zero.  (For the small p and q of the model the float64
\* nearest to p / q lies on the same side of every integer as p / q.)
Trunc(p, q) == IF p >= 0 THEN p \div q ELSE -((-p) \div q)

\* Lines 153-158: startN moved into the source.
clampStartN(sz, n) ==
    IF n < 0 THEN (IF sz \div 4 <= 0 THEN sz \div 4 - 1 ELSE 0)
    ELSE IF sz \div 4 <= n THEN sz \div 4 - 1
    ELSE n

\* Lines 160-162: endN moved below the source's end.
clampEndN(sz, n) == IF sz \div 4 <= n THEN sz \div 4 - 1 ELSE n

\* Lines 151-158: startN of at(tt), with tInSrc = tt * f / t.
startNAt(sz, f, t, tt) == clampStartN(sz, Trunc(tt * f - windowSize * t, t))

\* Variant of endNAt that rounds tInSrc + windowSize up.
endNAtCeil(sz, f, t, tt) ==
    clampEndN(sz, -((-(tt * f + windowSize * t)) \div t))

\* Lines 151 and 159-162: endN of at(tt).
endNAt(sz, f, t, tt) == clampEndN(sz, Trunc(tt * f + windowSize * t, t))

WindowInputs == (0..MaxWindowFrames) \X (1..MaxRate) \X (1..MaxRate)

InitWindow ==
    /\ \E in \in WindowInputs : NewResampling(FrameBytes * in[1], in[2], in[3], 0)
    /\ NoSplit /\ NoPipeline

\* at(tt) as Read calls it (line 199: tt below Length / 4), up to the bounds of
\* its loop: ret.out = <<startN, endN>>, the loop of line 165 calls src(n) for
\* every n in startN .. endN.
CallAt ==
    /\ \E tt \in 0..(Length(size, from, to) \div 4 - 1) :
          ret' = [op |-> "at", a |-> tt, w |-> "", p0 |-> pos, n |-> 0, err |-> "nil",
                  out |-> <<startNAt(size, from, to, tt), endNAt(size, from, to, tt)>>,
                  how |-> "none"]
    /\ UNCHANGED <<Config, Pipeline, pos, srcBlock, srcBufL, srcBufR, lruSrcBlocks,
                   sourcePos, recency, faults, first, SplitVars>>

NextWindow == CallAt
SpecWindow == InitWindow /\ [][NextWindow]_vars

(* ---- Stereo16 over a raw PCM source ------------------------------------ *)
\* The bytes of the raw source: all 128 (seed 0), or changing (seed 1).
RawPalette == <<0, 255, 128, 127, 1>>
RawByte(sd, o) == IF sd = 0 THEN 128 ELSE RawPalette[(o % 5) + 1]
RawSeeds == {0, 1}

\* Go's integer division, which truncates toward zero.
Quot(a, b) == IF a >= 0 THEN a \div b ELSE -((-a) \div b)

\* (mono ? 2 : 1) * (eight ? 2 : 1): lines 290-295.
expansion(m, e) == (IF m THEN 2 ELSE 1) * (IF e THEN 2 ELSE 1)

\* Lines 252-258 and 300-305: x /= 2 for mono, x /= 2 for eight.
halveMono(m, x) == IF m THEN Quot(x, 2) ELSE x
halveEight(e, x) == IF e THEN Quot(x, 2) ELSE x
halve(m, e, x) == halveEight(e, halveMono(m, x))

\* Variant of Sample8 that is centred on 128.
Sample8Centred(byte) == (byte - 128) * 256

\* int16(int(byte)*0x101 - (1 << 15)): lines 267, 282, 283.
Sample8(byte) == byte * 257 - 32768

Lo(v) == U16(v) % 256
Hi(v) == U16(v) \div 256

\* Lines 264-289: the four bytes written at b[4*i .. 4*i+3] from the source
\* bytes buf (buf[k] is the Go buf[k-1]).
frame16(m, e, buf, i) ==
    IF m /\ e
    THEN <<Lo(Sample8(buf[i + 1])), Hi(Sample8(buf[i + 1])),
           Lo(Sample8(buf[i + 1])), Hi(Sample8(buf[i + 1]))>>
    ELSE IF m
    THEN <<buf[2 * i + 1], buf[2 * i + 2], buf[2 * i + 1], buf[2 * i + 2]>>
    ELSE <<Lo(Sample8(buf[2 * i + 1])), Hi(Sample8(buf[2 * i + 1])),
           Lo(Sample8(buf[2 * i + 2])), Hi(Sample8(buf[2 * i + 2]))>>

\* The number of frames the loops of lines 266, 274 and 281 write.
framesOf(m, e, n) == IF m /\ e THEN n ELSE IF m \/ e THEN n \div 2 ELSE 0

\* The bytes written into b.
convert16(m, e, buf, n) ==
    [k \in 1..(4 * framesOf(m, e, n)) |->
        frame16(m, e, buf, (k - 1) \div 4)[((k - 1) % 4) + 1]]

\* Lines 260-296: what Stereo16.Read returns when the source's Read returned
\* rd = [n, err, buf].
stereoReturn(m, e, rd) ==
    IF rd.err # "nil" /\ rd.err # "EOF"
    THEN [n |-> 0, err |-> rd.err, b |-> <<>>]
    ELSE [n |-> rd.n * expansion(m, e), err |-> rd.err,
          b |-> convert16(m, e, rd.buf, rd.n)]

\* The source's Read of a buffer of l bytes at position p that delivers n
\* bytes with the error err.
rawRead(sd, p, n, err) ==
    [n |-> n, err |-> err, buf |-> [k \in 1..n |-> RawByte(sd, p + k - 1)]]

\* What the source's Read may return (io.Reader; wav's stream.Read, part_001
\* lines 53-63): end-of-stream at the end, else any number of bytes up to
\* the buffer's length, the last bytes alone or together with end-of-stream.
RawReads(sz, p, l) ==
    IF sz - p <= 0 THEN {<<0, "EOF">>}
    ELSE IF l = 0 THEN {<<0, "nil">>}
    ELSE {<<n, "nil">> : n \in 1..Min(l, sz - p)} \cup
         (IF sz - p <= l THEN {<<sz - p, "EOF">>} ELSE {})

\* A failing Read of the source: it delivered no byte, or one.
RawFails(sz, p, l) == {<<n, "io">> : n \in 0..Min(1, Min(l, sz - p))}

\* Lines 300-305: the offset Stereo16.Seek hands to the source.
stereoSeekOffset(m, e, offset) == halve(m, e, offset)

\* The position the source's Seek moves to and returns (part_001 lines
\* 66-89, relative to the start of the data), for targets inside the data.
rawSeek(sz, p, offset, whence) ==
    CASE whence = "SeekStart" -> offset
      [] whence = "SeekCurrent" -> p + offset
      [] whence = "SeekEnd" -> sz + offset

\* The Stereo16 that Decode builds (part_001 lines 202-203) over a source at
\* its start; the resampler's fields are idle.
InitStereo16 ==
    /\ \E sz \in 0..MaxRaw, sd \in RawSeeds : NewResampling(sz, 1, 1, sd)
    /\ NoSplit
    /\ mono \in BOOLEAN /\ eight \in BOOLEAN /\ (mono \/ eight)
    /\ outPos = 0
    /\ NoCalls /\ NoWavStream

Idle == <<from, to, pos, srcBlock, srcBufL, srcBufR, lruSrcBlocks, recency, first,
          SplitVars, Calls, WavStream>>

\* The state after Stereo16.Read(b), len(b) = len, whose source Read returned rd.
ApplyStereoRead(res, rd, len) ==
    /\ sourcePos' = sourcePos + rd.n
    /\ outPos' = outPos + res.n
    /\ ret' = [op |-> "Stereo16.Read", a |-> len, w |-> "", p0 |-> sourcePos,
               n |-> res.n, err |-> res.err, out |-> res.b, how |-> "none"]
    /\ faults' = IF res.err = "io" THEN faults + 1 ELSE faults
    /\ UNCHANGED <<size, seed, mono, eight, Idle>>

StereoRead ==
    \E len \in 0..MaxBuf :
        \E r \in RawReads(size, sourcePos, halve(mono, eight, len)) :
            ApplyStereoRead(stereoReturn(mono, eight, rawRead(seed, sourcePos, r[1], r[2])),
                            rawRead(seed, sourcePos, r[1], r[2]), len)

StereoReadFail ==
    /\ faults < MaxFaults
    /\ \E len \in 0..MaxBuf :
        \E r \in RawFails(size, sourcePos, halve(mono, eight, len)) :
            ApplyStereoRead(stereoReturn(mono, eight, rawRead(seed, sourcePos, r[1], r[2])),
                            rawRead(seed, sourcePos, r[1], r[2]), len)

\* Stereo16.Seek with a frame-aligned offset whose target lies in the stream.
StereoSeek ==
    \E k \in (-MaxRaw)..MaxRaw, whence \in Whences :
        /\ rawSeek(size, sourcePos, stereoSeekOffset(mono, eight, FrameBytes * k), whence)
               \in 0..size
        /\ rawSeek(size * expansion(mono, eight), outPos, FrameBytes * k, whence)
               \in 0..(size * expansion(mono, eight))
        /\ sourcePos' = rawSeek(size, sourcePos,
                                stereoSeekOffset(mono, eight, FrameBytes * k), whence)
        /\ outPos' = rawSeek(size * expansion(mono, eight), outPos, FrameBytes * k, whence)
        /\ ret' = [op |-> "Stereo16.Seek", a |-> FrameBytes * k, w |-> whence,
                   p0 |-> sourcePos, n |-> sourcePos', err |-> "nil", out |-> <<>>,
                   how |-> "none"]
        /\ UNCHANGED <<size, seed, mono, eight, faults, Idle>>

NextStereo16 == StereoRead \/ StereoReadFail \/ StereoSeek
SpecStereo16 == InitStereo16 /\ [][NextStereo16]_vars

(* ---- Read and Close through the streams Decode builds ------------------ *)
\* The objects: "wav.Stream" and "mp3.Stream" (what Decode returns),
\* "Resampling", "Stereo16", "wav.stream" (the data chunk of the file),
\* "mp3.Decoder" (go-mp3) and "src" (the byte source handed to Decode).
\* A call under way is [obj, op, st, len]: st is "enter" before the method
\* has called on, "wait" while the method it called runs and "back" once
\* that has returned; len is the length of the buffer of a Read.
Formats == {"wav", "mp3"}

\* part_001 line 202.
hasStereo16(m, e) == m \/ e
\* part_001 line 211, part_000 line 67: the rates differ.
hasResampling(f, t) == f # t

\* The stream Decode returns.
decoded(fmt) == IF fmt = "mp3" THEN "mp3.Stream" ELSE "wav.Stream"

\* The source NewResampling is given: part_001 line 212 (s, the Stereo16 or
\* the data chunk), part_000 line 68 (stream, the Stream being built).
resamplingSource(fmt, m, e) ==
    IF fmt = "mp3" THEN "mp3.Stream"
    ELSE IF hasStereo16(m, e) THEN "Stereo16" ELSE "wav.stream"

\* Stream.inner of wav: part_001 lines 196-216.
wavInner(m, e, f, t) ==
    IF hasResampling(f, t) THEN "Resampling"
    ELSE IF hasStereo16(m, e) THEN "Stereo16" ELSE "wav.stream"

\* The object whose Close the Close of obj calls, "none" when it calls none.
closeCallee(fmt, m, e, f, t, obj) ==
    CASE obj = "wav.Stream" -> wavInner(m, e, f, t)
      [] obj = "Resampling" -> resamplingSource(fmt, m, e)
      [] obj = "Stereo16" -> "wav.stream"
      [] obj = "wav.stream" -> "src"
      [] obj = "mp3.Stream" -> IF hasResampling(f, t) THEN "Resampling" ELSE "none"
      [] OTHER -> "none"

\* The object whose Read the Read of obj calls, "none" when it calls none;
\* loads: the Read of the resampler has a block to load.
readCallee(fmt, m, e, f, t, obj, loads) ==
    CASE obj = "wav.Stream" -> wavInner(m, e, f, t)
      [] obj = "Resampling" -> IF loads THEN resamplingSource(fmt, m, e) ELSE "none"
      [] obj = "Stereo16" -> "wav.stream"
      [] obj = "wav.stream" -> "src"
      [] obj = "mp3.Stream" -> IF hasResampling(f, t) THEN "Resampling" ELSE "mp3.Decoder"
      [] obj = "mp3.Decoder" -> "src"
      [] OTHER -> "none"

\* The buffer obj's Read hands to the Read it calls.
calleeLen(m, e, obj, len) ==
    CASE obj = "Resampling" -> BlockBytes
      [] obj = "Stereo16" -> halve(m, e, len)
      [] OTHER -> len

Top == stack[Len(stack)]

\* What the resampler's Read of the call under way returns.
TopRead == Read(size, seed, from, to, Cache, pos, Top.len, NoFault)

callee(fr, res) ==
    IF fr.op = "Close" THEN closeCallee(format, mono, eight, from, to, fr.obj)
    ELSE readCallee(format, mono, eight, from, to, fr.obj,
                    fr.obj = "Resampling" /\ res.c.loads > 0)

InitStreams ==
    /\ \E sz \in SmallSizes, rate \in Rates, sd \in Seeds :
          NewResampling(sz, rate[1], rate[2], sd)
    /\ NoSplit
    /\ format \in Formats
    /\ mono \in BOOLEAN /\ eight \in BOOLEAN
    /\ format = "mp3" => (~mono /\ ~eight)
    /\ outPos = 0 /\ stack = <<>> /\ closed = 0
    /\ NoWavStream

Resampler == <<pos, srcBlock, srcBufL, srcBufR, lruSrcBlocks, sourcePos, recency>>
Fixed == <<Config, mono, eight, outPos, format, faults, first, SplitVars, WavStream>>

\* The consumer calls Close on the stream, once.
StreamClose ==
    /\ stack = <<>> /\ ret.op # "Stream.Close"
    /\ stack' = <<[obj |-> decoded(format), op |-> "Close", st |-> "enter", len |-> 0]>>
    /\ UNCHANGED <<Fixed, Resampler, ret, closed>>

\* The consumer calls Read on the stream.
StreamRead ==
    /\ stack = <<>> /\ ret.op # "Stream.Close"
    /\ \E len \in {FrameBytes, MaxBuf} :
          stack' = <<[obj |-> decoded(format), op |-> "Read", st |-> "enter",
                      len |-> len]>>
    /\ UNCHANGED <<Fixed, Resampler, ret, closed>>

\* The method under way calls the method of the next object.
Delegate ==
    /\ stack # <<>> /\ Top.st = "enter"
    /\ callee(Top, TopRead) # "none"
    /\ Len(stack) < MaxDepth
    /\ stack' = Append([stack EXCEPT ![Len(stack)].st = "wait"],
                       [obj |-> callee(Top, TopRead), op |-> Top.op, st |-> "enter",
                        len |-> calleeLen(mono, eight, Top.obj, Top.len)])
    /\ UNCHANGED <<Fixed, Resampler, ret, closed>>

\* The stack after the method under way has returned.
popped ==
    IF Len(stack) = 1 THEN <<>>
    ELSE [SubSeq(stack, 1, Len(stack) - 1) EXCEPT ![Len(stack) - 1].st = "back"]

\* Resampling.Read returns res.
ReturnRead(res) ==
    /\ SetCache(res.c)
    /\ pos' = res.pos
    /\ ret' = [op |-> "Read", a |-> Top.len, w |-> "", p0 |-> pos, n |-> res.n,
               err |-> res.err, out |-> res.b, how |-> "none"]
    /\ closed' = closed

\* Any other method returns; Close of the byte source is counted.
ReturnOther ==
    /\ closed' = IF Top.obj = "src" /\ Top.op = "Close" THEN closed + 1 ELSE closed
    /\ ret' = IF Len(stack) > 1 THEN ret
              ELSE IF Top.op = "Close" THEN [ret EXCEPT !.op = "Stream.Close"]
              ELSE [ret EXCEPT !.op = "Stream.Read"]
    /\ UNCHANGED Resampler

\* The method under way returns: it calls no other, or the one it called is back.
Return ==
    /\ stack # <<>>
    /\ \/ Top.st = "back"
       \/ Top.st = "enter" /\ callee(Top, TopRead) = "none"
    /\ stack' = popped
    /\ IF Top.obj = "Resampling" /\ Top.op = "Read"
       THEN ReturnRead(TopRead)
       ELSE ReturnOther
    /\ UNCHANGED Fixed

NextStreams == StreamClose \/ StreamRead \/ Delegate \/ Return
SpecStreams == InitStreams /\ [][NextStreams]_vars

(* ---- wav's stream over the byte source --------------------------------- *)
\* The bytes Decode has read when it builds the stream: the RIFF header, the
\* "fmt " chunk of 16 bytes with its chunk header, and the header of the
\* "data" chunk.
MinHeaderSize == 12 + 8 + 16 + 8

\* Here size is the length of the file, sourcePos the position of the byte
\* source src, and outPos the position last reported to the caller: the
\* position a Seek returned, advanced by the counts the Reads returned.

\* Lines 53-63: stream.Read, rd the result of src.Read for the buffer cut to
\* Min(remaining, len(p)) bytes (lines 57-59).
streamRead(rem, rd) == [n |-> rd.n, err |-> rd.err, b |-> rd.buf, remaining |-> rem - rd.n]

\* Lines 67-75: the offset and the whence handed to src.Seek.
streamSeekOffset(hs, ds, offset, whence) ==
    CASE whence = "SeekStart" -> offset + hs
      [] whence = "SeekCurrent" -> offset
      [] whence = "SeekEnd" -> hs + ds + offset
streamSeekWhence(whence) == IF whence = "SeekEnd" THEN "SeekStart" ELSE whence

\* Lines 76-88: src.Seek has moved src to target (io.Seeker: a target before
\* the start of the file is an error and leaves src where it was, at p).
streamSeekDone(hs, ds, rem, p, target) ==
    IF target < 0
    THEN [n |-> 0, err |-> "io", remaining |-> rem, sourcePos |-> p]
    ELSE IF target - hs < 0
    THEN [n |-> 0, err |-> "invalid", remaining |-> rem, sourcePos |-> target]
    ELSE IF ds - (target - hs) < 0
    THEN [n |-> ds, err |-> "nil", remaining |-> 0, sourcePos |-> target]
    ELSE [n |-> target - hs, err |-> "nil", remaining |-> ds - (target - hs),
          sourcePos |-> target]

\* Lines 66-89: stream.Seek.
streamSeek(hs, ds, rem, sz, p, offset, whence) ==
    streamSeekDone(hs, ds, rem, p,
                   rawSeek(sz, p, streamSeekOffset(hs, ds, offset, whence),
                           streamSeekWhence(whence)))

\* The stream Decode builds (lines 196-201) over a file whose data chunk of ds
\* bytes is followed by a tail; src stands behind the header, the resampler's
\* fields are idle.
NewStream(ds, tail, sd) ==
    /\ size = MinHeaderSize + ds + tail /\ from = 1 /\ to = 1 /\ seed = sd
    /\ headerSize = MinHeaderSize /\ dataSize = ds /\ remaining = ds
    /\ sourcePos = MinHeaderSize
    /\ outPos = 0
    /\ pos = 0 /\ srcBlock = -1 /\ srcBufL = EmptyMap /\ srcBufR = EmptyMap
    /\ lruSrcBlocks = <<>> /\ recency = <<>> /\ first = <<>>
    /\ ret = NoRet /\ faults = 0

InitWav ==
    /\ \E ds \in 0..MaxData, tail \in 0..MaxTail, sd \in RawSeeds : NewStream(ds, tail, sd)
    /\ NoSplit /\ NoCalls
    /\ mono = FALSE /\ eight = FALSE

\* The state after stream.Read(p), len(p) = len, that returned res.
ApplyStreamRead(res, len) ==
    /\ sourcePos' = sourcePos + res.n
    /\ remaining' = res.remaining
    /\ outPos' = outPos + res.n
    /\ ret' = [op |-> "stream.Read", a |-> len, w |-> "", p0 |-> sourcePos,
               n |-> res.n, err |-> res.err, out |-> res.b, how |-> "none"]
    /\ faults' = IF res.err = "io" THEN faults + 1 ELSE faults
    /\ UNCHANGED <<size, seed, headerSize, dataSize, mono, eight, Idle>>

\* Lines 54-56: at the end of the data src is not read.
WavReadEnd ==
    /\ remaining <= 0
    /\ \E len \in 0..(MaxData + 1) :
          ApplyStreamRead([n |-> 0, err |-> "EOF", b |-> <<>>, remaining |-> remaining],
                          len)

WavReadData ==
    /\ remaining > 0
    /\ \E len \in 0..(MaxData + 1) :
        \E r \in RawReads(size, sourcePos, Min(remaining, len)) :
            ApplyStreamRead(streamRead(remaining, rawRead(seed, sourcePos, r[1], r[2])), len)

WavReadFail ==
    /\ remaining > 0
    /\ faults < MaxFaults
    /\ \E len \in 0..(MaxData + 1) :
        \E r \in RawFails(size, sourcePos, Min(remaining, len)) :
            ApplyStreamRead(streamRead(remaining, rawRead(seed, sourcePos, r[1], r[2])), len)

\* The offsets Seek is called with: around the data, and far before the file.
StreamOffsets ==
    ((-(MaxData + MaxTail + 1))..(MaxData + MaxTail + 1)) \cup
        {-(MinHeaderSize + MaxData + MaxTail + 1)}

\* The state after stream.Seek(offset, whence) that returned res.
ApplyStreamSeek(res, offset, whence) ==
    /\ res.sourcePos <= size + 1
    /\ sourcePos' = res.sourcePos
    /\ remaining' = res.remaining
    /\ outPos' = IF res.err = "nil" THEN res.n ELSE outPos
    /\ ret' = [op |-> "stream.Seek", a |-> offset, w |-> whence, p0 |-> sourcePos,
               n |-> res.n, err |-> res.err, out |-> <<>>, how |-> "none"]
    /\ UNCHANGED <<faults, size, seed, headerSize, dataSize, mono, eight, Idle>>

WavSeek ==
    \E offset \in StreamOffsets, whence \in Whences :
        ApplyStreamSeek(streamSeek(headerSize, dataSize, remaining, size, sourcePos,
                                   offset, whence),
                        offset, whence)

NextWav == WavReadEnd \/ WavReadData \/ WavReadFail \/ WavSeek
SpecWav == InitWav /\ [][NextWav]_vars

(* ======================================================================= *)
(* Properties                                                              *)
(* ======================================================================= *)
OutLength == Length(size, from, to)

\* The samples of source frame j, as numerators over 32767.
SourceFrame(sd, j) ==
    <<DecodeSample(SourceByte(sd, 4 * j), SourceByte(sd, 4 * j + 1)),
      DecodeSample(SourceByte(sd, 4 * j + 2), SourceByte(sd, 4 * j + 3))>>

\* Places in a block at which its content is compared with the source.
BlockSamples == {0, 1, resamplingBufferSize - 1}

\* Resident block b holds the source's frames of block b (at the sampled places
\* that lie inside the source).
ResidentHoldsSource(b) ==
    \A ii \in BlockSamples :
        b * resamplingBufferSize + ii < size \div 4 =>
            <<sl(seed, srcBufL[b], ii), sr(seed, srcBufR[b], ii)>> =
                SourceFrame(seed, b * resamplingBufferSize + ii)

\* C1: as long as the source has reported no I/O error, every block resident
\* in the cache holds the decoded source frames at byte offset b*4096*4, and a
\* call src(i) with a valid i has returned frame i of the source, whatever the
\* order of the calls before.
C1_SrcReturnsSourceFrame ==
    faults = 0 =>
        /\ \A b \in DOMAIN srcBufL : ResidentHoldsSource(b)
        /\ (ret.op = "src" /\ ret.how \in {"load", "hit"}) =>
               ret.out = SourceFrame(seed, ret.a)

\* C2: Seek(4*i, SeekStart) followed by a Read of one frame returns the same
\* four bytes every time: a later probe of the probed frame returns what the
\* first probe of it returned.
C2_ProbeRepeats ==
    (ret.op = "Read" /\ ret.p0 = FrameBytes * ProbedFrame /\ ret.err = "nil"
        /\ first # <<>>) => ret.out = first

Clamp(p, L) == IF p < 0 THEN 0 ELSE IF p > L THEN L ELSE p
SeekBase(whence, p0, L) ==
    CASE whence = "SeekStart" -> 0
      [] whence = "SeekCurrent" -> p0
      [] whence = "SeekEnd" -> L

\* C3: Seek(offset, whence) leaves the cursor at base + offset clamped into
\* [0, Length], where base is 0 for SeekStart, the prior cursor for
\* SeekCurrent and Length for SeekEnd, for every prior cursor.
C3_SeekOrigins ==
    ret.op = "Seek" =>
        /\ pos = Clamp(SeekBase(ret.w, ret.p0, OutLength) + ret.a, OutLength)
        /\ ret.n = pos

\* C4: the left map, the right map and the LRU list hold at most 4 entries
\* each, and no block index is twice in the LRU list.
C4_CacheBounded ==
    /\ Cardinality(DOMAIN srcBufL) <= lruCapacity
    /\ Cardinality(DOMAIN srcBufR) <= lruCapacity
    /\ Len(lruSrcBlocks) <= lruCapacity
    /\ \A j, k \in 1..Len(lruSrcBlocks) : j # k => lruSrcBlocks[j] # lruSrcBlocks[k]

\* The cache is full and a block has been evicted from it.
C4_Witness ==
    /\ Len(lruSrcBlocks) = lruCapacity
    /\ Cardinality(DOMAIN srcBufL) = lruCapacity
    /\ Len(recency) > lruCapacity

\* C5: the cursor is in [0, Length] in every state, and no Seek has returned
\* an error: it returns the clamped cursor.
C5_CursorInRange ==
    /\ 0 <= pos
    /\ pos <= OutLength
    /\ ret.op = "Seek" => (ret.err = "nil" /\ ret.n = pos)

\* A Seek to an absolute offset beyond the end of a non-empty stream.
C5_Witness ==
    /\ ret.op = "Seek" /\ ret.w = "SeekStart"
    /\ ret.a > OutLength /\ OutLength > 0
    /\ pos = OutLength

\* C6: the cursor is a multiple of 4 in every state, also after a Seek whose
\* offset is not a multiple of 4, and every Read returns a multiple of 4.
C6_FrameAligned ==
    /\ pos % FrameBytes = 0
    /\ ret.op = "Read" => ret.n % FrameBytes = 0

\* The block of S accessed (loaded or hit) longest ago.
LeastRecent(rec, S) ==
    CHOOSE b \in S : \A o \in S : lruIndex(rec, b) <= lruIndex(rec, o)

C7_Step ==
    /\ (ret'.how = "load" /\ Len(lruSrcBlocks) >= lruCapacity) =>
           /\ (DOMAIN srcBufL) \ (DOMAIN srcBufL') = {LeastRecent(recency, DOMAIN srcBufL)}
           /\ (DOMAIN srcBufR) \ (DOMAIN srcBufR') = {LeastRecent(recency, DOMAIN srcBufR)}
    /\ ret'.how = "hit" =>
           /\ srcBufL' = srcBufL
           /\ srcBufR' = srcBufR
           /\ Range(lruSrcBlocks') = Range(lruSrcBlocks)
           /\ Len(lruSrcBlocks') = Len(lruSrcBlocks)
           /\ lruSrcBlocks'[Len(lruSrcBlocks')] = ret'.a \div resamplingBufferSize

\* C7: a load into a full cache evicts the resident block whose most recent
\* access (load or hit) is the oldest, and a hit moves the hit block to the
\* end of the LRU list and changes neither the resident blocks nor their
\* content.
C7_StrictLRU == [][C7_Step]_vars

\* Blocks 0..3 loaded, block 0 hit, block 4 loaded: block 1 was evicted.
C7_Witness ==
    /\ ret.how = "load"
    /\ lruSrcBlocks = <<2, 3, 0, 4>>
    /\ DOMAIN srcBufL = {0, 2, 3, 4}

C8_Step ==
    ret'.how = "fail" =>
        /\ ret'.err = "io"
        /\ UNCHANGED <<srcBufL, srcBufR, lruSrcBlocks, pos>>

\* C8: a src call whose block load fails with an I/O error returns the error
\* and leaves the two maps, the LRU list and the cursor as they were.
C8_FailedLoadKeepsCache == [][C8_Step]_vars

\* A load has failed while blocks were resident.
C8_Witness ==
    /\ ret.op = "src" /\ ret.how = "fail" /\ ret.err = "io"
    /\ Len(lruSrcBlocks) > 0

C9_Step ==
    /\ (ret'.op = "Read" /\ ret'.p0 = OutLength) =>
           (ret'.n = 0 /\ ret'.err = "EOF")
    /\ (ret'.op = "Read" /\ ret'.p0 < OutLength) => ret'.err # "EOF"
    /\ (ret.op = "Seek" /\ ret.w = "SeekStart" /\ ret.a > OutLength /\ ret'.op = "Read") =>
           (ret'.n = 0 /\ ret'.err = "EOF")
    /\ (ret'.op = "Seek" /\ ret'.w = "SeekStart" /\ ret'.a < 0) => pos' = 0

\* C9: a Read called with the cursor at Length returns 0 bytes and
\* end-of-stream, a Read called with the cursor below Length does not return
\* end-of-stream, the Read that follows a Seek to an absolute offset beyond
\* Length returns end-of-stream, and a Seek to a negative absolute offset
\* leaves the cursor at 0.
C9_EndOfStream == [][C9_Step]_vars

\* A Read at the end of a non-empty stream has reported end-of-stream.
C9_Witness ==
    /\ ret.op = "Read" /\ ret.err = "EOF" /\ ret.n = 0
    /\ ret.p0 = OutLength /\ OutLength > 0

\* C10: the bytes read up to a frame-aligned split point, followed by the
\* bytes read after a Seek(split, SeekStart) up to end-of-stream, are the
\* bytes of one sequential read of the whole stream.
C10_SplitReadEqualsWhole == pc = "done" => acc = WholeRead

\* A split read with both parts non-empty has finished.
C10_Witness ==
    /\ pc = "done"
    /\ 0 < split /\ split < OutLength
    /\ Len(acc) = OutLength

\* C11: for a source of whole frames and positive rates Length() is
\* 4 * floor(sourceFrames * targetRate / sourceRate), a non-negative multiple
\* of 4; 441 frames from rate 441 to rate 480 give 1920.
C11_LengthFormula ==
    ret.op = "Length" =>
        /\ ret.n = 4 * (((size \div 4) * to) \div from)
        /\ ret.n >= 0
        /\ ret.n % 4 = 0
        /\ (size = 4 * 441 /\ from = 441 /\ to = 480) => ret.n = 1920

\* Length was called where the byte count size * to / from is no multiple of 4.
C11_Witness ==
    /\ ret.op = "Length"
    /\ ((size * to) \div from) % 4 # 0
    /\ (size * to) % from # 0
    /\ ret.n > 0

\* The 16-bit sample stored little endian at out[k], out[k + 1].
SampleAt(out, k) == DecodeSample(out[k], out[k + 1])

\* C12 as stated: for a mono 8-bit source whose every byte is 128, every
\* 16-bit sample Stereo16.Read writes, to either channel, is 0.
C12_MidScaleIsZero ==
    (ret.op = "Stereo16.Read" /\ mono /\ eight /\ seed = 0) =>
        \A i \in 0..(Len(ret.out) \div 4 - 1) :
            SampleAt(ret.out, 4 * i + 1) = 0 /\ SampleAt(ret.out, 4 * i + 3) = 0

\* C12 amended: for a mono 8-bit source Stereo16.Read writes one frame per
\* source byte delivered, both channels holding byte*257 - 32768; for a source
\* whose every byte is 128 that sample is 128.
C12_MidScaleIs128 ==
    (ret.op = "Stereo16.Read" /\ mono /\ eight /\ ret.err # "io") =>
        /\ Len(ret.out) = 4 * (sourcePos - ret.p0)
        /\ \A i \in 0..(Len(ret.out) \div 4 - 1) :
              /\ SampleAt(ret.out, 4 * i + 1) = RawByte(seed, ret.p0 + i) * 257 - 32768
              /\ SampleAt(ret.out, 4 * i + 3) = SampleAt(ret.out, 4 * i + 1)
              /\ seed = 0 => SampleAt(ret.out, 4 * i + 1) = 128

\* Two frames were written from a mono 8-bit source of bytes 128.
C12_Witness ==
    /\ ret.op = "Stereo16.Read" /\ mono /\ eight /\ seed = 0
    /\ ret.out = <<128, 0, 128, 0, 128, 0, 128, 0>>

\* C13: Stereo16.Seek returns the new position in the Stereo16's own output
\* stream; Seek(o, SeekStart) with a frame-aligned o inside the stream
\* returns o.
C13_SeekReturnsOutputPosition ==
    (ret.op = "Stereo16.Seek" /\ ret.w = "SeekStart") =>
        (ret.n = ret.a /\ ret.n = outPos)

\* C14: the output position (seek target plus the counts returned by Read
\* since) is the source's position times the expansion factor, and every
\* Read consumes at most len(b)/factor source bytes and returns the factor
\* times the number of source bytes it consumed.
C14_PositionsInStep ==
    /\ outPos = sourcePos * expansion(mono, eight)
    /\ ret.op = "Stereo16.Read" =>
          /\ sourcePos - ret.p0 <= ret.a \div expansion(mono, eight)
          /\ ret.n = expansion(mono, eight) * (sourcePos - ret.p0)

\* No object has two calls of the method op under way.
NotReentered(op) ==
    \A i, j \in 1..Len(stack) :
        (i < j /\ stack[i].op = op /\ stack[j].op = op) => stack[i].obj # stack[j].obj

\* C15: one call of Close on a stream returned by the WAV or MP3 Decode
\* terminates (no Close is entered again while it runs) and has caused
\* exactly one Close call on the byte source when it returns.
C15_CloseCascades ==
    /\ NotReentered("Close")
    /\ closed <= 1
    /\ (stack = <<>> /\ ret.op = "Stream.Close") => closed = 1

\* C17: while a Read on a stream built by Decode runs, the Read of no object
\* is entered a second time: a block load reads from a stream upstream of
\* the resampler, also for the MP3 stream with differing rates.
C17_ReadOneDirectional == NotReentered("Read")

\* The block the src call that has just returned asked for.
CalledBlock == ret'.a \div resamplingBufferSize

C16_Step ==
    /\ ret'.how = "hit" => srcBlock' = srcBlock
    /\ (ret'.how = "load" /\ ~needSeek(Cache, CalledBlock)) =>
           sourcePos = CalledBlock * BlockBytes

\* C16: a cache hit leaves the block recorded as last loaded as it was, so a
\* load seeks unless its block follows the block loaded last, and a load that
\* skips the seek finds the source at the first byte of the block it loads.
C16_SeekUnlessSuccessor == [][C16_Step]_vars

\* The source frames the loop of at() has summed.
Summed == { n \in 0..(size \div 4 - 1) : ret.out[1] <= n /\ n <= ret.out[2] }

\* n >= floor(tSrc - 8), for tSrc = tt * from / to.
AboveFloorLow(n, tt) == tt * from - windowSize * to < (n + 1) * to
\* n <= floor(tSrc + 8)
BelowFloorHigh(n, tt) == n * to <= tt * from + windowSize * to
\* n <= ceil(tSrc + 8)
BelowCeilHigh(n, tt) == (n - 1) * to < tt * from + windowSize * to

\* C18 as stated: at(t) sums exactly the source frames n of
\* [floor(tSrc - 8), ceil(tSrc + 8)] that lie in [0, size/4 - 1], where
\* tSrc = t * sourceRate / targetRate.
C18_WindowFloorCeil ==
    ret.op = "at" =>
        Summed = { n \in 0..(size \div 4 - 1) :
                     AboveFloorLow(n, ret.a) /\ BelowCeilHigh(n, ret.a) }

\* C18 amended: at(t) sums exactly the source frames n of
\* [floor(tSrc - 8), floor(tSrc + 8)] that lie in [0, size/4 - 1]; it calls
\* src for these frames and no others.
C18_WindowFloorFloor ==
    ret.op = "at" =>
        /\ Summed = { n \in 0..(size \div 4 - 1) :
                        AboveFloorLow(n, ret.a) /\ BelowFloorHigh(n, ret.a) }
        /\ 0 <= ret.out[1] /\ ret.out[1] <= ret.out[2] + 1
        /\ ret.out[2] <= size \div 4 - 1

\* at was called at a fractional source position whose window lies inside
\* the source with a frame to spare on either side.
C18_Witness ==
    /\ ret.op = "at"
    /\ (ret.a * from) % to # 0
    /\ ret.out[1] > 0
    /\ ret.out[2] + 1 < size \div 4
    /\ ret.out[2] - ret.out[1] = 2 * windowSize

\* The float64 sample with numerator v over 32767 lies in [-1, 1].
InUnitRange(v) == -SampleMax <= v /\ v <= SampleMax

\* C19: every sample stored in a block of the cache (the 16-bit source sample
\* divided by 32767) lies in [-1, 1], for every 16-bit value of the source
\* sample, -32768 included.
C19_CachedSamplesInUnitRange ==
    \A b \in DOMAIN srcBufL : \A ii \in BlockSamples :
        /\ InUnitRange(sl(seed, srcBufL[b], ii))
        /\ InUnitRange(sr(seed, srcBufR[b], ii))

\* C20: after a block load has failed with an I/O error, also one that had
\* consumed part of the block, every later successful load caches the
\* source's frames of the block it loads and src returns the frame asked for.
C20_LoadAfterFailure ==
    (faults >= 1 /\ ret.op = "src" /\ ret.how = "load") =>
        /\ ResidentHoldsSource(ret.a \div resamplingBufferSize)
        /\ ret.out = SourceFrame(seed, ret.a)

\* C21: in every state the keys of the left map, the keys of the right map
\* and the block indices in the LRU list are the same set, the cache-hit
\* branch has not reached its panic, and the block recorded as current, which
\* the final lookup of src reads, is in both maps once a block was loaded.
C21_CacheBookkeeping ==
    /\ DOMAIN srcBufL = DOMAIN srcBufR
    /\ \A k \in 1..Len(lruSrcBlocks) : lruSrcBlocks[k] \in Int
    /\ Range(lruSrcBlocks) = DOMAIN srcBufL
    /\ srcBlock # -1 => (srcBlock \in DOMAIN srcBufL /\ srcBlock \in DOMAIN srcBufR)
    /\ (ret.op = "src" /\ ret.how \in {"load", "hit"}) =>
           srcBlock = ret.a \div resamplingBufferSize

\* A block was hit in a full cache from which a block has been evicted.
C21_Witness ==
    /\ ret.op = "src" /\ ret.how = "hit"
    /\ Len(lruSrcBlocks) = lruCapacity
    /\ Len(recency) > lruCapacity
    /\ lruSrcBlocks[Len(lruSrcBlocks)] = srcBlock

\* C22: a Stereo16.Read whose source reported no I/O error returns the number
\* of bytes it wrote into b, at most len(b), and has written the expansion of
\* every source byte the source's Read delivered, for every buffer length
\* and every count, short or odd, the source returned.
C22_ReadReportsWritten ==
    (ret.op = "Stereo16.Read" /\ ret.err # "io") =>
        /\ ret.n = Len(ret.out)
        /\ ret.n <= ret.a
        /\ Len(ret.out) = expansion(mono, eight) * (sourcePos - ret.p0)

\* The position a Seek reports for a target relative to the data's start.
Reported(target) == IF target > dataSize THEN dataSize ELSE target

C23_Step ==
    /\ 0 <= remaining' /\ remaining' <= dataSize
    /\ remaining' = dataSize - outPos'
    /\ (ret'.op = "stream.Seek" /\ ret'.w = "SeekCurrent" /\ ret'.err = "nil") =>
           ret'.n = Reported(outPos + ret'.a)
    /\ (ret'.op = "stream.Seek" /\ ret'.err = "invalid") => sourcePos' = sourcePos

\* C23: after every Read and Seek of wav's data stream 0 <= remaining <=
\* dataSize and remaining is dataSize minus the position last reported to the
\* caller; a SeekCurrent moves relative to the position last reported, also
\* after a seek into the tail that was reported as dataSize; and a Seek that
\* returns the invalid-offset error leaves the byte source where it was.
C23_StreamBookkeeping == [][C23_Step]_vars

====
